---- MODULE Spec2Model ----
(***************************************************************************)
(* Model of the PIC32 RTCC driver src/rtc.c: the BCD codec, the RTCC       *)
(* initialisation sequence, the double-read sampling loops, the            *)
(* date/time formatter and the peak-hour classifier, together with the     *)
(* RTCC peripheral that ticks and reports its clock status on its own.     *)
(***************************************************************************)
EXTENDS Integers, Sequences, FiniteSets, TLC

(***************************************************************************)
(* Bounds of the model.                                                    *)
(***************************************************************************)
\* ticks the peripheral may make after the last write of TIME/DATE
MaxTicks == 2

(***************************************************************************)
(* C integer arithmetic: fixed widths, shifts and bitwise operators.       *)
(***************************************************************************)
U8(x) == x % 256

U16(x) == x % 65536

Shl(x, n) == x * (2 ^ n)

Shr(x, n) == x \div (2 ^ n)

RECURSIVE BitOr(_, _)
BitOr(a, b) ==
    IF a = 0 THEN b
    ELSE IF b = 0 THEN a
    ELSE (IF a % 2 = 1 \/ b % 2 = 1 THEN 1 ELSE 0)
         + 2 * BitOr(a \div 2, b \div 2)

RECURSIVE BitAnd(_, _)
BitAnd(a, b) ==
    IF a = 0 \/ b = 0 THEN 0
    ELSE (IF a % 2 = 1 /\ b % 2 = 1 THEN 1 ELSE 0)
         + 2 * BitAnd(a \div 2, b \div 2)

\* A 32-bit word is held as its four bytes, most significant first.
\* (uint32_t)b << shift, for a byte b and a shift of 0, 8, 16 or 24
ByteShl(b, shift) == [i \in 1..4 |-> IF i = 4 - (shift \div 8) THEN b ELSE 0]

\* w1 | w2 on 32-bit words
WordOr(w1, w2) == [i \in 1..4 |-> BitOr(w1[i], w2[i])]

\* REGSET = mask and REGCLR = mask of the PIC32 register map
RegSet(reg, mask) == BitOr(reg, mask)

RegClr(reg, mask) == reg - BitAnd(reg, mask)

\* bits of RTCCON used by the driver
RTCCON_ON == 32768

RTCCON_RTCWREN == 8

RTCCON_RTCCLKON == 64

(***************************************************************************)
(* BCD codec (rtc.c 32-60).                                                *)
(***************************************************************************)
\* mutation: hexadecimal instead of decimal digits
int_to_bcd_hex(value) == U8(BitOr(Shl(value \div 16, 4), value % 16))

\* mutation: values above 99 saturate at 99
int_to_bcd_saturating(value) ==
    IF value > 99 THEN 153
    ELSE U8(BitOr(Shl(value \div 10, 4), value % 10))

int_to_bcd(value) == U8(BitOr(Shl(value \div 10, 4), value % 10))

\* mutation: minute and second bytes exchanged
pack_time_swapped(hour, min, sec) ==
    WordOr(WordOr(ByteShl(int_to_bcd(hour), 24), ByteShl(int_to_bcd(sec), 16)),
           ByteShl(int_to_bcd(min), 8))

pack_time(hour, min, sec) ==
    WordOr(WordOr(ByteShl(int_to_bcd(hour), 24), ByteShl(int_to_bcd(min), 16)),
           ByteShl(int_to_bcd(sec), 8))

\* mutation: the year is not reduced modulo 100 before encoding
pack_date_fullyear(year, month, day) ==
    WordOr(WordOr(ByteShl(int_to_bcd(U8(year)), 24), ByteShl(int_to_bcd(month), 16)),
           ByteShl(int_to_bcd(day), 8))

pack_date(year, month, day) ==
    WordOr(WordOr(ByteShl(int_to_bcd(U8(year % 100)), 24), ByteShl(int_to_bcd(month), 16)),
           ByteShl(int_to_bcd(day), 8))

(***************************************************************************)
(* Register field extraction and formatting (rtc.c 145-173).               *)
(***************************************************************************)
\* (reg >> shift) & 0xFF stored in a uint8_t, for a shift of 8, 16 or 24
RegByte(reg, shift) == U8(BitAnd(reg[4 - (shift \div 8)], 255))

\* character codes
Ch0 == 48

ChDash == 45

ChSpace == 32

ChColon == 58

HiChar(bcd) == Shr(bcd, 4) + Ch0

LoChar(bcd) == BitAnd(bcd, 15) + Ch0

\* mutation: month and day fields written in each other's place
FormatDayFirst(date_r, time_r) ==
    LET year_bcd  == RegByte(date_r, 24)
        month_bcd == RegByte(date_r, 16)
        day_bcd   == RegByte(date_r, 8)
        hour_bcd  == RegByte(time_r, 24)
        min_bcd   == RegByte(time_r, 16)
        sec_bcd   == RegByte(time_r, 8)
    IN  << 50, Ch0, HiChar(year_bcd), LoChar(year_bcd), ChDash,
           HiChar(day_bcd), LoChar(day_bcd), ChDash,
           HiChar(month_bcd), LoChar(month_bcd), ChSpace,
           HiChar(hour_bcd), LoChar(hour_bcd), ChColon,
           HiChar(min_bcd), LoChar(min_bcd), ChColon,
           HiChar(sec_bcd), LoChar(sec_bcd), 0 >>

\* mutation: index 19 receives the character '0' instead of the terminator
FormatShort(date_r, time_r) ==
    LET year_bcd  == RegByte(date_r, 24)
        month_bcd == RegByte(date_r, 16)
        day_bcd   == RegByte(date_r, 8)
        hour_bcd  == RegByte(time_r, 24)
        min_bcd   == RegByte(time_r, 16)
        sec_bcd   == RegByte(time_r, 8)
    IN  << 50, Ch0, HiChar(year_bcd), LoChar(year_bcd), ChDash,
           HiChar(month_bcd), LoChar(month_bcd), ChDash,
           HiChar(day_bcd), LoChar(day_bcd), ChSpace,
           HiChar(hour_bcd), LoChar(hour_bcd), ChColon,
           HiChar(min_bcd), LoChar(min_bcd), ChColon,
           HiChar(sec_bcd), LoChar(sec_bcd), Ch0 >>

\* the 20 bytes written to current_datetime, index 0 first
Format(date_r, time_r) ==
    LET year_bcd  == RegByte(date_r, 24)
        month_bcd == RegByte(date_r, 16)
        day_bcd   == RegByte(date_r, 8)
        hour_bcd  == RegByte(time_r, 24)
        min_bcd   == RegByte(time_r, 16)
        sec_bcd   == RegByte(time_r, 8)
    IN  << 50, Ch0, HiChar(year_bcd), LoChar(year_bcd), ChDash,
           HiChar(month_bcd), LoChar(month_bcd), ChDash,
           HiChar(day_bcd), LoChar(day_bcd), ChSpace,
           HiChar(hour_bcd), LoChar(hour_bcd), ChColon,
           HiChar(min_bcd), LoChar(min_bcd), ChColon,
           HiChar(sec_bcd), LoChar(sec_bcd), 0 >>

(***************************************************************************)
(* Loop conditions of the two sampling loops (rtc.c 143, 204).             *)
(***************************************************************************)
\* mutation: only the TIME register is compared
UpdMismatchTimeOnly(dr, tr, dc, tc) == tr # tc

\* mutation: && in place of ||
UpdMismatchBoth(dr, tr, dc, tc) == (dr # dc) /\ (tr # tc)

UpdMismatch(dr, tr, dc, tc) == (dr # dc) \/ (tr # tc)

ChkMismatch(tr, tc) == tr # tc

(***************************************************************************)
(* Peak window arithmetic (rtc.c 187-188, 211-219).                        *)
(***************************************************************************)
\* mutation: the minute argument is dropped
PeakMinutesHourOnly(hour, min) == U16(hour * 60)

\* mutation: the sum is kept in eight bits
PeakMinutesU8(hour, min) == U8((hour * 60) + min)

\* (hour * 60) + min stored in a uint16_t
PeakMinutes(hour, min) == U16((hour * 60) + min)

\* mutation: the byte is used as a binary number
BcdToIntRaw(bcd) == U8(bcd)

\* ((bcd >> 4) * 10) + (bcd & 0x0F) stored in a uint8_t
BcdToInt(bcd) == U8((Shr(bcd, 4) * 10) + BitAnd(bcd, 15))

\* mutation: start excluded
InPeakStartExcl(cur, start, end) == cur > start /\ cur < end

\* mutation: end included
InPeakEndIncl(cur, start, end) == cur >= start /\ cur <= end

\* mutation: a window with start > end wraps around midnight
InPeakWrap(cur, start, end) ==
    IF start <= end THEN cur >= start /\ cur < end
    ELSE cur >= start \/ cur < end

InPeak(cur, start, end) == cur >= start /\ cur < end

PEAK_LINE == "(PEAK-HOUR)\n"

OFFPEAK_LINE == "(OFFPEAK-HOUR)\n"

(***************************************************************************)
(* The RTCC peripheral: a BCD calendar clock that advances by one second.  *)
(***************************************************************************)
EnvByte(w, k) == w[4 - k]

EnvBcdValid(b) == b \div 16 <= 9 /\ b % 16 <= 9

EnvBcdVal(b) == (b \div 16) * 10 + (b % 16)

EnvBcd(v) == (v \div 10) * 16 + (v % 10)

EnvWord(b3, b2, b1, b0) == << b3, b2, b1, b0 >>

DaysInMonth(yy, mo) ==
    IF mo = 2 THEN (IF yy % 4 = 0 THEN 29 ELSE 28)
    ELSE IF mo \in {4, 6, 9, 11} THEN 30 ELSE 31

\* the registers hold a calendar date and a time of day in BCD
ClockValid(date, time) ==
    /\ \A k \in 1..3 : EnvBcdValid(EnvByte(date, k)) /\ EnvBcdValid(EnvByte(time, k))
    /\ EnvBcdVal(EnvByte(time, 3)) <= 23
    /\ EnvBcdVal(EnvByte(time, 2)) <= 59
    /\ EnvBcdVal(EnvByte(time, 1)) <= 59
    /\ EnvBcdVal(EnvByte(date, 2)) \in 1..12
    /\ EnvBcdVal(EnvByte(date, 1)) >= 1
    /\ EnvBcdVal(EnvByte(date, 1)) <=
           DaysInMonth(EnvBcdVal(EnvByte(date, 3)), EnvBcdVal(EnvByte(date, 2)))

DayRolls(time) ==
    /\ EnvBcdVal(EnvByte(time, 3)) = 23
    /\ EnvBcdVal(EnvByte(time, 2)) = 59
    /\ EnvBcdVal(EnvByte(time, 1)) = 59

NextTime(time) ==
    LET h == EnvBcdVal(EnvByte(time, 3))
        m == EnvBcdVal(EnvByte(time, 2))
        s == EnvBcdVal(EnvByte(time, 1))
        s2 == (s + 1) % 60
        m2 == IF s2 = 0 THEN (m + 1) % 60 ELSE m
        h2 == IF s2 = 0 /\ m2 = 0 THEN (h + 1) % 24 ELSE h
    IN  EnvWord(EnvBcd(h2), EnvBcd(m2), EnvBcd(s2), EnvByte(time, 0))

NextDate(date) ==
    LET y == EnvBcdVal(EnvByte(date, 3))
        mo == EnvBcdVal(EnvByte(date, 2))
        d == EnvBcdVal(EnvByte(date, 1))
        last == d = DaysInMonth(y, mo)
        d2 == IF last THEN 1 ELSE d + 1
        mo2 == IF last THEN (IF mo = 12 THEN 1 ELSE mo + 1) ELSE mo
        y2 == IF last /\ mo = 12 THEN (y + 1) % 100 ELSE y
    IN  EnvWord(EnvBcd(y2), EnvBcd(mo2), EnvBcd(d2), EnvByte(date, 0))

(***************************************************************************)
(* Inputs.                                                                 *)
(***************************************************************************)
\* contents of <<RTCDATE, RTCTIME>> before the driver has written them
\* (the registers are not reset by the device): zero, all ones, a valid
\* date and time with the reserved byte set, and non-BCD nibbles
PowerOnRegs ==
    { << EnvWord(0, 0, 0, 0), EnvWord(0, 0, 0, 0) >>,
      << EnvWord(255, 255, 255, 255), EnvWord(255, 255, 255, 255) >>,
      << EnvWord(37, 8, 8, 5), EnvWord(9, 21, 64, 255) >>,
      << EnvWord(171, 205, 239, 0), EnvWord(250, 27, 60, 0) >> }

\* arguments <<year, month, day, hour, minute, second>> of RTC_Initialize
InitArgs ==
    { << 2025, 8, 8, 14, 30, 5 >>,
      << 2099, 12, 31, 23, 59, 59 >>,
      << 2024, 2, 29, 7, 59, 59 >>,
      << 2000, 1, 1, 16, 59, 59 >>,
      << 2105, 13, 32, 25, 61, 100 >> }

\* arguments <<start_hour, start_min, end_hour, end_min>> of setpeakhours
PeakArgs ==
    { << 8, 0, 17, 0 >>,
      << 22, 0, 6, 0 >>,
      << 17, 0, 8, 0 >>,
      << 0, 0, 23, 59 >>,
      << 255, 255, 255, 255 >> }

(***************************************************************************)
(* State.                                                                  *)
(***************************************************************************)
VARIABLES
    RTCTIME, RTCDATE, RTCCON,   \* peripheral registers
    syskey,                     \* state of the SYSKEY unlock sequence
    peak_start_minutes, peak_end_minutes,
    multiTariff,
    current_datetime,           \* char[20], index 0 first
    uart,                       \* strings sent to UART1 by the running or last call
    pc,                         \* position of the single thread of execution
    date_reg, time_reg, date_check, time_check,   \* locals of the readers
    rtc_time, rtc_date,         \* parameters of __initRTC
    ticks,                      \* ticks since TIME/DATE were last written
    held,                       \* <<DATE, TIME>> pairs held during the running RTC_UpdateDateTime
    loop,                       \* passes and ticks of the running sampling loop
    lastInit,                   \* arguments of the last RTC_Initialize, <<>> once the clock ticked
    lastSet,                    \* arguments of the last setpeakhours, <<>> if none
    cin, cout                   \* input and result of a codec function

vars == << RTCTIME, RTCDATE, RTCCON, syskey, peak_start_minutes,
           peak_end_minutes, multiTariff, current_datetime, uart, pc,
           date_reg, time_reg, date_check, time_check, rtc_time, rtc_date,
           ticks, held, loop, lastInit, lastSet, cin, cout >>

hw == << RTCTIME, RTCDATE, RTCCON, syskey, ticks >>

window == << peak_start_minutes, peak_end_minutes, lastSet >>

locals == << date_reg, time_reg, date_check, time_check, rtc_time, rtc_date >>

codec == << cin, cout >>

\* value of a local variable or parameter outside its function
NoWord == << 0, 0, 0, 0 >>

ChkPcs == { "chk_time", "chk_timechk", "chk_test", "chk_classify" }

\* no sampling loop is running
NoLoop == [ passes |-> 0, ticks |-> 0, landed |-> {} ]

\* first pass of a sampling loop
FirstPass == [ passes |-> 1, ticks |-> 0, landed |-> {} ]

\* a tick during a sampling loop: where it landed and whether the day rolled
Landed(l, at, rolled) ==
    [ l EXCEPT !.ticks = @ + 1, !.landed = @ \cup { << at, rolled >> } ]

\* the loop condition held: one more pass
NextPass(l) == [ l EXCEPT !.passes = @ + 1, !.landed = {} ]

UpdPcs == { "upd_date", "upd_time", "upd_datechk", "upd_timechk", "upd_test", "upd_fmt" }

Init ==
    /\ \E r \in PowerOnRegs : RTCDATE = r[1] /\ RTCTIME = r[2]
    /\ RTCCON \in { 0, RTCCON_ON + RTCCON_RTCCLKON }
    /\ syskey = "locked"
    /\ peak_start_minutes = 0
    /\ peak_end_minutes = 0
    /\ multiTariff \in { 0, 1 }
    /\ current_datetime = [i \in 1..20 |-> 0]
    /\ uart = << >>
    /\ pc = "idle"
    /\ date_reg = NoWord /\ time_reg = NoWord
    /\ date_check = NoWord /\ time_check = NoWord
    /\ rtc_time = NoWord /\ rtc_date = NoWord
    /\ ticks = 0
    /\ held = {}
    /\ loop = NoLoop
    /\ lastInit = << >>
    /\ lastSet = << >>
    /\ cin = << >>
    /\ cout = << >>

(***************************************************************************)
(* Peripheral actions.                                                     *)
(***************************************************************************)
\* one-second tick of a running clock; DATE changes on day rollover
Tick ==
    /\ BitAnd(RTCCON, RTCCON_ON) # 0
    /\ ClockValid(RTCDATE, RTCTIME)
    /\ ticks < MaxTicks
    /\ RTCTIME' = NextTime(RTCTIME)
    /\ RTCDATE' = IF DayRolls(RTCTIME) THEN NextDate(RTCDATE) ELSE RTCDATE
    /\ ticks' = ticks + 1
    /\ held' = IF pc \in UpdPcs THEN held \cup { << RTCDATE', RTCTIME' >> } ELSE held
    /\ loop' = IF pc \in UpdPcs \cup ChkPcs
               THEN Landed(loop, pc, DayRolls(RTCTIME)) ELSE loop
    /\ lastInit' = << >>
    /\ UNCHANGED << RTCCON, syskey, window, multiTariff, current_datetime,
                    uart, pc, locals, codec >>

\* the clock status bit follows the ON bit
HwClockOn ==
    /\ BitAnd(RTCCON, RTCCON_ON) # 0
    /\ BitAnd(RTCCON, RTCCON_RTCCLKON) = 0
    /\ RTCCON' = RegSet(RTCCON, RTCCON_RTCCLKON)
    /\ UNCHANGED << RTCTIME, RTCDATE, syskey, ticks, window, multiTariff,
                    current_datetime, uart, pc, locals, held, loop, lastInit, codec >>

HwClockOff ==
    /\ BitAnd(RTCCON, RTCCON_ON) = 0
    /\ BitAnd(RTCCON, RTCCON_RTCCLKON) # 0
    /\ RTCCON' = RegClr(RTCCON, RTCCON_RTCCLKON)
    /\ UNCHANGED << RTCTIME, RTCDATE, syskey, ticks, window, multiTariff,
                    current_datetime, uart, pc, locals, held, loop, lastInit, codec >>

(***************************************************************************)
(* SYSKEY and write-enable behaviour of the device.                        *)
(***************************************************************************)
\* RTCWREN can be set only while the system is unlocked
SetWren(con, key) == IF key = "unlocked" THEN RegSet(con, RTCCON_RTCWREN) ELSE con

\* RTCTIME and RTCDATE accept a write only while RTCWREN is set
RegWrite(old, new, con) == IF BitAnd(con, RTCCON_RTCWREN) # 0 THEN new ELSE old

(***************************************************************************)
(* RTC_Initialize and __initRTC (rtc.c 71-123).                            *)
(***************************************************************************)
\* rtc.c 120-122 and 73: pack the arguments, enter __initRTC, clear ON
Call_RTC_Initialize ==
    /\ pc = "idle"
    /\ \E a \in InitArgs :
          /\ rtc_time' = pack_time(a[4], a[5], a[6])
          /\ rtc_date' = pack_date(a[1], a[2], a[3])
          /\ lastInit' = a
    /\ RTCCON' = RegClr(RTCCON, RTCCON_ON)
    /\ uart' = << >>
    /\ pc' = "init_unlock"
    /\ UNCHANGED << RTCTIME, RTCDATE, syskey, ticks, window, multiTariff,
                    current_datetime, date_reg, time_reg, date_check,
                    time_check, held, loop, codec >>

\* rtc.c 76-77 and 100-101: the two key writes
InitUnlock ==
    /\ pc \in { "init_unlock", "init_unlock2" }
    /\ syskey' = "unlocked"
    /\ pc' = IF pc = "init_unlock" THEN "init_wren" ELSE "init_wrdis"
    /\ UNCHANGED << RTCTIME, RTCDATE, RTCCON, ticks, window, multiTariff,
                    current_datetime, uart, locals, held, loop, lastInit, codec >>

\* rtc.c 78
InitWren ==
    /\ pc = "init_wren"
    /\ RTCCON' = SetWren(RTCCON, syskey)
    /\ pc' = "init_lock"
    /\ UNCHANGED << RTCTIME, RTCDATE, syskey, ticks, window, multiTariff,
                    current_datetime, uart, locals, held, loop, lastInit, codec >>

\* rtc.c 79 and 103
InitLock ==
    /\ pc \in { "init_lock", "init_lock2" }
    /\ syskey' = "locked"
    /\ pc' = IF pc = "init_lock" THEN "init_clr" ELSE "init_on2"
    /\ UNCHANGED << RTCTIME, RTCDATE, RTCCON, ticks, window, multiTariff,
                    current_datetime, uart, locals, held, loop, lastInit, codec >>

\* rtc.c 82-89: four clears of the ON bit and the settle delay
InitClr ==
    /\ pc = "init_clr"
    /\ \E c1 \in { RegClr(RTCCON, RTCCON_ON) } :
       \E c2 \in { RegClr(c1, RTCCON_ON) } :
       \E c3 \in { RegClr(c2, RTCCON_ON) } :
          RTCCON' = RegClr(c3, RTCCON_ON)
    /\ pc' = "init_time"
    /\ UNCHANGED << RTCTIME, RTCDATE, syskey, ticks, window, multiTariff,
                    current_datetime, uart, locals, held, loop, lastInit, codec >>

\* rtc.c 92
InitTime ==
    /\ pc = "init_time"
    /\ RTCTIME' = RegWrite(RTCTIME, rtc_time, RTCCON)
    /\ ticks' = 0
    /\ pc' = "init_date"
    /\ UNCHANGED << RTCDATE, RTCCON, syskey, window, multiTariff,
                    current_datetime, uart, locals, held, loop, lastInit, codec >>

\* rtc.c 93
InitDate ==
    /\ pc = "init_date"
    /\ RTCDATE' = RegWrite(RTCDATE, rtc_date, RTCCON)
    /\ ticks' = 0
    /\ pc' = "init_on"
    /\ UNCHANGED << RTCTIME, RTCCON, syskey, window, multiTariff,
                    current_datetime, uart, locals, held, loop, lastInit, codec >>

\* rtc.c 96
InitOn ==
    /\ pc = "init_on"
    /\ RTCCON' = RegSet(RTCCON, RTCCON_ON)
    /\ pc' = "init_wait"
    /\ UNCHANGED << RTCTIME, RTCDATE, syskey, ticks, window, multiTariff,
                    current_datetime, uart, locals, held, loop, lastInit, codec >>

\* mutation: the negation of the loop condition is missing
InitWaitInverted ==
    /\ pc = "init_wait"
    /\ BitAnd(RTCCON, RTCCON_RTCCLKON) = 0
    /\ pc' = "init_unlock2"
    /\ UNCHANGED << hw, window, multiTariff, current_datetime, uart, locals,
                    held, loop, lastInit, codec >>

\* rtc.c 97: the loop is left once the status bit reads as set
InitWait ==
    /\ pc = "init_wait"
    /\ BitAnd(RTCCON, RTCCON_RTCCLKON) # 0
    /\ pc' = "init_unlock2"
    /\ UNCHANGED << hw, window, multiTariff, current_datetime, uart, locals,
                    held, loop, lastInit, codec >>

\* mutation: the write-enable bit is left set
InitWrDisKept ==
    /\ pc = "init_wrdis"
    /\ pc' = "init_lock2"
    /\ UNCHANGED << hw, window, multiTariff, current_datetime, uart, locals,
                    held, loop, lastInit, codec >>

\* rtc.c 102
InitWrDis ==
    /\ pc = "init_wrdis"
    /\ RTCCON' = RegClr(RTCCON, RTCCON_RTCWREN)
    /\ pc' = "init_lock2"
    /\ UNCHANGED << RTCTIME, RTCDATE, syskey, ticks, window, multiTariff,
                    current_datetime, uart, locals, held, loop, lastInit, codec >>

\* rtc.c 106-107 and 123: set ON, return
InitOn2 ==
    /\ pc = "init_on2"
    /\ RTCCON' = RegSet(RTCCON, RTCCON_ON)
    /\ rtc_time' = NoWord
    /\ rtc_date' = NoWord
    /\ pc' = "idle"
    /\ UNCHANGED << RTCTIME, RTCDATE, syskey, ticks, window, multiTariff,
                    current_datetime, uart, date_reg, time_reg, date_check,
                    time_check, held, loop, lastInit, codec >>

(***************************************************************************)
(* RTC_UpdateDateTime (rtc.c 133-174).                                     *)
(***************************************************************************)
Call_RTC_UpdateDateTime ==
    /\ pc = "idle"
    /\ pc' = "upd_date"
    /\ held' = { << RTCDATE, RTCTIME >> }
    /\ loop' = FirstPass
    /\ uart' = << >>
    /\ UNCHANGED << hw, window, multiTariff, current_datetime, locals,
                    lastInit, codec >>

\* rtc.c 139
UpdReadDate ==
    /\ pc = "upd_date"
    /\ date_reg' = RTCDATE
    /\ pc' = "upd_time"
    /\ UNCHANGED << hw, window, multiTariff, current_datetime, uart, time_reg,
                    date_check, time_check, rtc_time, rtc_date, held, loop,
                    lastInit, codec >>

\* mutation: the assignment is reversed, RTCTIME = time_reg
UpdReadTimeReversed ==
    /\ pc = "upd_time"
    /\ RTCTIME' = time_reg
    /\ pc' = "upd_datechk"
    /\ UNCHANGED << RTCDATE, RTCCON, syskey, ticks, window, multiTariff,
                    current_datetime, uart, locals, held, loop, lastInit,
                    codec >>

\* rtc.c 140
UpdReadTime ==
    /\ pc = "upd_time"
    /\ time_reg' = RTCTIME
    /\ pc' = "upd_datechk"
    /\ UNCHANGED << hw, window, multiTariff, current_datetime, uart, date_reg,
                    date_check, time_check, rtc_time, rtc_date, held, loop,
                    lastInit, codec >>

\* rtc.c 141
UpdCheckDate ==
    /\ pc = "upd_datechk"
    /\ date_check' = RTCDATE
    /\ pc' = "upd_timechk"
    /\ UNCHANGED << hw, window, multiTariff, current_datetime, uart, date_reg,
                    time_reg, time_check, rtc_time, rtc_date, held, loop, lastInit,
                    codec >>

\* rtc.c 142
UpdCheckTime ==
    /\ pc = "upd_timechk"
    /\ time_check' = RTCTIME
    /\ pc' = "upd_test"
    /\ UNCHANGED << hw, window, multiTariff, current_datetime, uart, date_reg,
                    time_reg, date_check, rtc_time, rtc_date, held, loop, lastInit,
                    codec >>

\* mutation: the loop gives up after two passes
UpdTestCapped ==
    /\ pc = "upd_test"
    /\ IF UpdMismatch(date_reg, time_reg, date_check, time_check) /\ loop.passes < 2
       THEN pc' = "upd_date" /\ loop' = NextPass(loop)
       ELSE pc' = "upd_fmt" /\ loop' = loop
    /\ UNCHANGED << hw, window, multiTariff, current_datetime, uart, locals,
                    held, lastInit, codec >>

\* rtc.c 143
UpdTest ==
    /\ pc = "upd_test"
    /\ IF UpdMismatch(date_reg, time_reg, date_check, time_check)
       THEN pc' = "upd_date" /\ loop' = NextPass(loop)
       ELSE pc' = "upd_fmt" /\ loop' = loop
    /\ UNCHANGED << hw, window, multiTariff, current_datetime, uart, locals,
                    held, lastInit, codec >>

\* rtc.c 146-174
UpdFormat ==
    /\ pc = "upd_fmt"
    /\ current_datetime' = Format(date_reg, time_reg)
    /\ date_reg' = NoWord /\ time_reg' = NoWord
    /\ date_check' = NoWord /\ time_check' = NoWord
    /\ held' = {}
    /\ loop' = NoLoop
    /\ pc' = "idle"
    /\ UNCHANGED << hw, window, multiTariff, uart, rtc_time, rtc_date,
                    lastInit, codec >>

(***************************************************************************)
(* setpeakhours (rtc.c 185-189).                                           *)
(***************************************************************************)
\* mutation: configuring the window also resets the tariff flag
setpeakhoursResetsTariff ==
    /\ pc = "idle"
    /\ \E a \in PeakArgs :
          /\ peak_start_minutes' = PeakMinutes(a[1], a[2])
          /\ peak_end_minutes' = PeakMinutes(a[3], a[4])
          /\ lastSet' = a
    /\ multiTariff' = 0
    /\ uart' = << >>
    /\ UNCHANGED << hw, current_datetime, pc, locals, held, loop, lastInit,
                    codec >>

setpeakhours ==
    /\ pc = "idle"
    /\ \E a \in PeakArgs :
          /\ peak_start_minutes' = PeakMinutes(a[1], a[2])
          /\ peak_end_minutes' = PeakMinutes(a[3], a[4])
          /\ lastSet' = a
    /\ uart' = << >>
    /\ UNCHANGED << hw, multiTariff, current_datetime, pc, locals, held, loop,
                    lastInit, codec >>

(***************************************************************************)
(* checkPeakHours (rtc.c 196-226).                                         *)
(***************************************************************************)
Call_checkPeakHours ==
    /\ pc = "idle"
    /\ pc' = "chk_time"
    /\ uart' = << >>
    /\ loop' = FirstPass
    /\ UNCHANGED << hw, window, multiTariff, current_datetime, locals, held,
                    lastInit, codec >>

\* rtc.c 202
ChkReadTime ==
    /\ pc = "chk_time"
    /\ time_reg' = RTCTIME
    /\ pc' = "chk_timechk"
    /\ UNCHANGED << hw, window, multiTariff, current_datetime, uart, date_reg,
                    date_check, time_check, rtc_time, rtc_date, held, loop,
                    lastInit, codec >>

\* rtc.c 203
ChkCheckTime ==
    /\ pc = "chk_timechk"
    /\ time_check' = RTCTIME
    /\ pc' = "chk_test"
    /\ UNCHANGED << hw, window, multiTariff, current_datetime, uart, date_reg,
                    time_reg, date_check, rtc_time, rtc_date, held, loop, lastInit,
                    codec >>

\* rtc.c 204
ChkTest ==
    /\ pc = "chk_test"
    /\ IF ChkMismatch(time_reg, time_check)
       THEN pc' = "chk_time" /\ loop' = NextPass(loop)
       ELSE pc' = "chk_classify" /\ loop' = loop
    /\ UNCHANGED << hw, window, multiTariff, current_datetime, uart, locals,
                    held, lastInit, codec >>

\* mutation: the minute is taken from the seconds byte
CurrentMinutesShift8(time_r) ==
    LET hour_bcd == RegByte(time_r, 24)
        min_bcd  == RegByte(time_r, 8)
        current_hour == BcdToInt(hour_bcd)
        current_min  == BcdToInt(min_bcd)
    IN  U16((current_hour * 60) + current_min)

\* rtc.c 215: minutes since midnight of the sampled TIME word
CurrentMinutes(time_r) ==
    LET hour_bcd == RegByte(time_r, 24)
        min_bcd  == RegByte(time_r, 16)
        current_hour == BcdToInt(hour_bcd)
        current_min  == BcdToInt(min_bcd)
    IN  U16((current_hour * 60) + current_min)

\* mutation: the line is sent only when the tariff changes
ChkClassifyOnChange ==
    /\ pc = "chk_classify"
    /\ IF InPeak(CurrentMinutes(time_reg), peak_start_minutes, peak_end_minutes)
       THEN /\ uart' = IF multiTariff = 1 THEN uart
                       ELSE Append(uart, << "lit", PEAK_LINE >>)
            /\ multiTariff' = 1
       ELSE /\ uart' = IF multiTariff = 0 THEN uart
                       ELSE Append(uart, << "lit", OFFPEAK_LINE >>)
            /\ multiTariff' = 0
    /\ time_reg' = NoWord /\ time_check' = NoWord
    /\ loop' = NoLoop
    /\ pc' = "idle"
    /\ UNCHANGED << hw, window, current_datetime, date_reg, date_check,
                    rtc_time, rtc_date, held, lastInit, codec >>

\* rtc.c 207-226
ChkClassify ==
    /\ pc = "chk_classify"
    /\ IF InPeak(CurrentMinutes(time_reg), peak_start_minutes, peak_end_minutes)
       THEN /\ uart' = Append(uart, << "lit", PEAK_LINE >>)
            /\ multiTariff' = 1
       ELSE /\ uart' = Append(uart, << "lit", OFFPEAK_LINE >>)
            /\ multiTariff' = 0
    /\ time_reg' = NoWord /\ time_check' = NoWord
    /\ loop' = NoLoop
    /\ pc' = "idle"
    /\ UNCHANGED << hw, window, current_datetime, date_reg, date_check,
                    rtc_time, rtc_date, held, lastInit, codec >>

(***************************************************************************)
(* display_current_time (rtc.c 233-237).                                   *)
(***************************************************************************)
\* the characters of a C string: those before the first terminator
RECURSIVE CStr(_)
CStr(buf) ==
    IF buf = << >> \/ Head(buf) = 0 THEN << >>
    ELSE << Head(buf) >> \o CStr(Tail(buf))

display_current_time ==
    /\ pc = "idle"
    /\ uart' = << << "lit", "\n\rCurrent Time: " >>,
                  << "buf", CStr(current_datetime) >>,
                  << "lit", "\n" >> >>
    /\ UNCHANGED << hw, window, multiTariff, current_datetime, pc, locals,
                    held, loop, lastInit, codec >>

(***************************************************************************)
(* Specification of the driver running against the peripheral.            *)
(***************************************************************************)
Next ==
    \/ Tick \/ HwClockOn \/ HwClockOff
    \/ Call_RTC_Initialize \/ InitUnlock \/ InitWren \/ InitLock \/ InitClr
    \/ InitTime \/ InitDate \/ InitOn \/ InitWait \/ InitWrDis \/ InitOn2
    \/ Call_RTC_UpdateDateTime \/ UpdReadDate \/ UpdReadTime \/ UpdCheckDate
    \/ UpdCheckTime \/ UpdTest \/ UpdFormat
    \/ setpeakhours
    \/ Call_checkPeakHours \/ ChkReadTime \/ ChkCheckTime \/ ChkTest \/ ChkClassify
    \/ display_current_time

Spec == Init /\ [][Next]_vars

(***************************************************************************)
(* The same system with the scheduling the code relies on: the single      *)
(* thread of execution keeps executing the function it is in, and the      *)
(* peripheral raises its clock status bit once ON is set.  Ticks and the   *)
(* calls made by the application are not forced.                           *)
(***************************************************************************)
\* the statements inside the driver's functions
DriverStep ==
    \/ InitUnlock \/ InitWren \/ InitLock \/ InitClr \/ InitTime \/ InitDate
    \/ InitOn \/ InitWait \/ InitWrDis \/ InitOn2
    \/ UpdReadDate \/ UpdReadTime \/ UpdCheckDate \/ UpdCheckTime \/ UpdTest
    \/ UpdFormat
    \/ ChkReadTime \/ ChkCheckTime \/ ChkTest \/ ChkClassify

\* power-on state of the runs checked for progress: a stopped clock
InitLive ==
    /\ Init
    /\ RTCCON = 0
    /\ RTCDATE = EnvWord(0, 0, 0, 0)
    /\ RTCTIME = EnvWord(0, 0, 0, 0)
    /\ multiTariff = 0

\* the application initialises the clock and reads it; the window keeps its
\* default
NextLive ==
    \/ Tick \/ HwClockOn \/ HwClockOff
    \/ Call_RTC_Initialize \/ Call_RTC_UpdateDateTime \/ Call_checkPeakHours
    \/ DriverStep

SpecLive ==
    InitLive /\ [][NextLive]_vars /\ WF_vars(DriverStep) /\ WF_vars(HwClockOn)

(***************************************************************************)
(* Specification of the codec functions applied to enumerated arguments.   *)
(***************************************************************************)
\* arguments of int_to_bcd: every uint8_t value
BcdInputs == [ op : { "int_to_bcd" }, value : 0..255 ]

\* arguments of pack_time: every valid time of day
TimeInputs == [ op : { "pack_time" }, hour : 0..23, min : 0..59, sec : 0..59 ]

\* arguments of pack_date: every valid date of 2000..2099, and the same
\* dates a century later
DateInputs ==
    [ op : { "pack_date" }, year : 2000..2199, month : 1..12, day : 1..31 ]

\* arguments of pack_time and pack_date with one field above 99
WideInputs ==
    [ op : { "pack_time" }, hour : 100..255, min : { 30 }, sec : { 5 } ]
    \cup [ op : { "pack_time" }, hour : { 14 }, min : 100..255, sec : { 5 } ]
    \cup [ op : { "pack_time" }, hour : { 14 }, min : { 30 }, sec : 100..255 ]
    \cup [ op : { "pack_date" }, year : { 2025 }, month : 100..255, day : { 8 } ]
    \cup [ op : { "pack_date" }, year : { 2025 }, month : { 8 }, day : 100..255 ]

\* arguments of one bound of setpeakhours: every pair of uint8_t values
PeakInputs == [ op : { "PeakMinutes" }, hour : 0..255, min : 0..255 ]

\* hour and minute bytes of a sampled TIME word: every pair of bytes
MinuteInputs == [ op : { "CurrentMinutes" }, hour_bcd : 0..255, min_bcd : 0..255 ]

InitCodec ==
    /\ RTCDATE = NoWord
    /\ RTCTIME = NoWord
    /\ RTCCON = 0
    /\ syskey = "locked"
    /\ peak_start_minutes = 0
    /\ peak_end_minutes = 0
    /\ multiTariff = 0
    /\ current_datetime = [i \in 1..20 |-> 0]
    /\ uart = << >>
    /\ pc = "codec"
    /\ date_reg = NoWord /\ time_reg = NoWord
    /\ date_check = NoWord /\ time_check = NoWord
    /\ rtc_time = NoWord /\ rtc_date = NoWord
    /\ ticks = 0
    /\ held = {}
    /\ loop = NoLoop
    /\ lastInit = << >>
    /\ lastSet = << >>
    /\ cin \in BcdInputs \cup TimeInputs \cup DateInputs \cup WideInputs
                \cup PeakInputs \cup MinuteInputs
    /\ cout = << >>

Apply_int_to_bcd ==
    /\ pc = "codec" /\ cout = << >> /\ cin.op = "int_to_bcd"
    /\ cout' = << int_to_bcd(cin.value) >>
    /\ UNCHANGED << hw, window, multiTariff, current_datetime, uart, pc,
                    locals, held, loop, lastInit, cin >>

Apply_pack_time ==
    /\ pc = "codec" /\ cout = << >> /\ cin.op = "pack_time"
    /\ cout' = << pack_time(cin.hour, cin.min, cin.sec) >>
    /\ UNCHANGED << hw, window, multiTariff, current_datetime, uart, pc,
                    locals, held, loop, lastInit, cin >>

Apply_pack_date ==
    /\ pc = "codec" /\ cout = << >> /\ cin.op = "pack_date"
    /\ cout' = << pack_date(cin.year, cin.month, cin.day) >>
    /\ UNCHANGED << hw, window, multiTariff, current_datetime, uart, pc,
                    locals, held, loop, lastInit, cin >>

Apply_PeakMinutes ==
    /\ pc = "codec" /\ cout = << >> /\ cin.op = "PeakMinutes"
    /\ cout' = << PeakMinutes(cin.hour, cin.min) >>
    /\ UNCHANGED << hw, window, multiTariff, current_datetime, uart, pc,
                    locals, held, loop, lastInit, cin >>

Apply_CurrentMinutes ==
    /\ pc = "codec" /\ cout = << >> /\ cin.op = "CurrentMinutes"
    /\ cout' = << CurrentMinutes(<< cin.hour_bcd, cin.min_bcd, 0, 0 >>) >>
    /\ UNCHANGED << hw, window, multiTariff, current_datetime, uart, pc,
                    locals, held, loop, lastInit, cin >>

NextCodec ==
    \/ Apply_int_to_bcd \/ Apply_pack_time \/ Apply_pack_date
    \/ Apply_PeakMinutes \/ Apply_CurrentMinutes

SpecCodec == InitCodec /\ [][NextCodec]_vars

(***************************************************************************)
(* Vocabulary of the properties.                                           *)
(***************************************************************************)
\* value of a BCD byte: tens digit in the high nibble, ones in the low
DigitsValue(b) == (b \div 16) * 10 + (b % 16)

\* minute of the day of a TIME word
MinuteOfDay(time) == DigitsValue(time[1]) * 60 + DigitsValue(time[2])

\* the window requested by the last setpeakhours call, <<0, 0>> by default
RequestedWindow ==
    IF lastSet = << >> THEN << 0, 0 >>
    ELSE << lastSet[1] * 60 + lastSet[2], lastSet[3] * 60 + lastSet[4] >>

\* checkPeakHours returns in this step
CheckReturns == pc = "chk_classify" /\ pc' = "idle"

\* RTC_UpdateDateTime returns in this step
UpdateReturns == pc = "upd_fmt" /\ pc' = "idle"

\* checkPeakHours was the last call and has returned
CheckDone == pc = "idle" /\ Len(uart) = 1 /\ uart[1][2] \in { PEAK_LINE, OFFPEAK_LINE }

ValidDateTime(a) ==
    /\ a[1] \in 2000..2099 /\ a[2] \in 1..12 /\ a[3] \in 1..31
    /\ a[4] \in 0..23 /\ a[5] \in 0..59 /\ a[6] \in 0..59

TwoDigits(v) == << 48 + (v \div 10), 48 + (v % 10) >>

\* zero-padded "YYYY-MM-DD HH:MM:SS" and the terminator
Render(a) ==
    << 48 + (a[1] \div 1000), 48 + ((a[1] \div 100) % 10) >>
    \o TwoDigits(a[1] % 100) \o << 45 >> \o TwoDigits(a[2]) \o << 45 >>
    \o TwoDigits(a[3]) \o << 32 >> \o TwoDigits(a[4]) \o << 58 >>
    \o TwoDigits(a[5]) \o << 58 >> \o TwoDigits(a[6]) \o << 0 >>

\* the string "2025-08-08 14:30:05" and its terminator
Str_2025_08_08_14_30_05 ==
    << 50, 48, 50, 53, 45, 48, 56, 45, 48, 56, 32,
       49, 52, 58, 51, 48, 58, 48, 53, 0 >>

\* indices (from 1) of the twelve field characters of current_datetime
FieldIdx == { 3, 4, 6, 7, 9, 10, 12, 13, 15, 16, 18, 19 }

\* the fixed characters of the pattern and the terminator
FixedLayout(buf) ==
    /\ Len(buf) = 20
    /\ buf[1] = 50 /\ buf[2] = 48
    /\ buf[5] = 45 /\ buf[8] = 45
    /\ buf[11] = 32
    /\ buf[14] = 58 /\ buf[17] = 58
    /\ buf[20] = 0

\* all nibbles of the three field bytes of a register word are decimal
BcdWord(w) == \A i \in 1..3 : w[i] \div 16 <= 9 /\ w[i] % 16 <= 9

(***************************************************************************)
(* C1.  The <<DATE, TIME>> pair that leaves the sampling loop of           *)
(* RTC_UpdateDateTime and is formatted is a pair the two registers held    *)
(* together at one instant during the call, with ticks free to land        *)
(* between any two reads.                                                  *)
(***************************************************************************)
C1_ConsistentSample ==
    [][ UpdateReturns =>
          /\ << date_reg, time_reg >> \in held
          /\ \E p \in held : current_datetime' = Format(p[1], p[2]) ]_vars

\* the loop was left although the day rolled over during the call
C1_Witness ==
    /\ pc = "upd_fmt"
    /\ << date_reg, time_reg >> \in held
    /\ \E p \in held : p[1] # date_reg

(***************************************************************************)
(* C2.  When checkPeakHours returns, multiTariff is 1 if and only if       *)
(* start <= hour*60+minute < end, for hour and minute decoded from the     *)
(* sampled TIME word and the window of the most recent setpeakhours call;  *)
(* otherwise it is 0.                                                      *)
(***************************************************************************)
C2_TariffIffInWindow ==
    [][ CheckReturns =>
          LET now == MinuteOfDay(time_reg)
              w == RequestedWindow
          IN  /\ peak_start_minutes = w[1]
              /\ peak_end_minutes = w[2]
              /\ multiTariff' = IF w[1] <= now /\ now < w[2] THEN 1 ELSE 0 ]_vars

\* a configured window, and a check that found the time inside it
C2_Witness ==
    /\ CheckDone
    /\ lastSet # << >>
    /\ multiTariff = 1
    /\ uart[1][2] = PEAK_LINE

(***************************************************************************)
(* C3.  Amended: at exactly the end minute of the window checkPeakHours    *)
(* reports OffPeak, and at exactly the start minute it reports Peak        *)
(* provided the window is not empty (start < end).                         *)
(***************************************************************************)
C3_Boundaries ==
    [][ (CheckReturns /\ lastSet # << >>) =>
          LET now == MinuteOfDay(time_reg)
              w == RequestedWindow
          IN  /\ (now = w[1] /\ w[1] < w[2]) => multiTariff' = 1
              /\ now = w[2] => multiTariff' = 0 ]_vars

\* C3 as stated: Peak at the start minute of any configured window
C3_Original ==
    [][ (CheckReturns /\ lastSet # << >>) =>
          LET now == MinuteOfDay(time_reg)
              w == RequestedWindow
          IN  /\ now = w[1] => multiTariff' = 1
              /\ now = w[2] => multiTariff' = 0 ]_vars

\* Peak reported at 08:00 for the window 08:00-17:00
C3_Witness ==
    /\ CheckDone
    /\ lastSet = << 8, 0, 17, 0 >>
    /\ MinuteOfDay(RTCTIME) = 480
    /\ ticks > 0
    /\ multiTariff = 1

(***************************************************************************)
(* C4.  While setpeakhours has never been called the window is 0..0 and    *)
(* every checkPeakHours sets multiTariff to 0 and emits the off-peak       *)
(* line, whatever TIME holds and whatever happened before.                 *)
(***************************************************************************)
C4_DefaultWindowOffPeak ==
    [][ /\ lastSet = << >> => (peak_start_minutes = 0 /\ peak_end_minutes = 0)
        /\ (CheckReturns /\ lastSet = << >>) =>
              /\ multiTariff' = 0
              /\ uart' = << << "lit", OFFPEAK_LINE >> >> ]_vars

\* an unconfigured check after the clock was initialised and has ticked
C4_Witness ==
    /\ CheckDone
    /\ lastSet = << >>
    /\ ticks > 0
    /\ multiTariff = 0
    /\ uart[1][2] = OFFPEAK_LINE

(***************************************************************************)
(* C5.  A sampling loop is left only after a pass whose second read of     *)
(* each register equals the first; a pass that saw a mismatch restarts     *)
(* the whole read sequence, and only values of a matching pass are         *)
(* formatted or classified.                                                *)
(***************************************************************************)
C5_OnlyMatchingPassLeaves ==
    [][ /\ pc = "upd_fmt" => (date_reg = date_check /\ time_reg = time_check)
        /\ pc = "chk_classify" => time_reg = time_check
        /\ (pc = "upd_test" /\ pc' # pc) =>
              IF date_reg # date_check \/ time_reg # time_check
              THEN pc' = "upd_date" ELSE pc' = "upd_fmt"
        /\ (pc = "chk_test" /\ pc' # pc) =>
              IF time_reg # time_check
              THEN pc' = "chk_time" ELSE pc' = "chk_classify"
        /\ current_datetime' # current_datetime =>
              /\ UpdateReturns
              /\ date_reg = date_check /\ time_reg = time_check
              /\ current_datetime' = Format(date_check, time_check)
        /\ (multiTariff' # multiTariff \/ CheckReturns) =>
              /\ CheckReturns
              /\ time_reg = time_check ]_vars

\* a pass saw TIME change while DATE did not: the loop is at its first read again
C5_Witness ==
    /\ pc = "upd_date"
    /\ time_reg # time_check
    /\ date_reg = date_check
    /\ Cardinality(held) >= 2

(***************************************************************************)
(* C6.  RTC_Initialize with a valid date and time followed, with no tick   *)
(* in between, by RTC_UpdateDateTime leaves the zero-padded                *)
(* "YYYY-MM-DD HH:MM:SS" of those fields in current_datetime;              *)
(* 2025-08-08 14:30:05 gives "2025-08-08 14:30:05".                        *)
(***************************************************************************)
C6_InitThenUpdateRenders ==
    [][ (UpdateReturns /\ lastInit # << >> /\ ValidDateTime(lastInit)) =>
          /\ current_datetime' = Render(lastInit)
          /\ lastInit = << 2025, 8, 8, 14, 30, 5 >> =>
                current_datetime' = Str_2025_08_08_14_30_05 ]_vars

C6_Witness ==
    /\ pc = "idle"
    /\ lastInit = << 2025, 8, 8, 14, 30, 5 >>
    /\ current_datetime = Str_2025_08_08_14_30_05

(***************************************************************************)
(* C7.  Amended: for every DATE and TIME content RTC_UpdateDateTime        *)
(* leaves 19 characters and a terminator at index 19, with '2','0', the    *)
(* '-', ' ' and ':' separators in place, and each field as two characters  *)
(* '0' + nibble, in '0'..'?'; they are decimal digits when the nibbles of  *)
(* the sampled words are at most 9.                                        *)
(***************************************************************************)
C7_FixedLayout ==
    [][ UpdateReturns =>
          /\ FixedLayout(current_datetime')
          /\ \A i \in FieldIdx : current_datetime'[i] \in 48..63
          /\ (BcdWord(date_reg) /\ BcdWord(time_reg)) =>
                \A i \in FieldIdx : current_datetime'[i] \in 48..57 ]_vars

\* C7 as stated: every field character is a decimal digit
C7_Original ==
    [][ UpdateReturns =>
          /\ FixedLayout(current_datetime')
          /\ \A i \in FieldIdx : current_datetime'[i] \in 48..57 ]_vars

\* registers with nibbles above 9 have been formatted
C7_Witness ==
    /\ pc = "idle"
    /\ FixedLayout(current_datetime)
    /\ \E i \in FieldIdx : current_datetime[i] > 57

(***************************************************************************)
(* C8.  For v in 0..99, decoding int_to_bcd(v) with                        *)
(* (b >> 4) * 10 + (b & 0x0F) returns v, and both nibbles are in 0..9.     *)
(***************************************************************************)
C8_BcdRoundTrip ==
    (cin.op = "int_to_bcd" /\ cout # << >> /\ cin.value <= 99) =>
        /\ BcdToInt(cout[1]) = cin.value
        /\ cout[1] \div 16 <= 9
        /\ cout[1] % 16 <= 9

C8_Witness ==
    /\ cin.op = "int_to_bcd"
    /\ cin.value = 99
    /\ cout = << 153 >>

(***************************************************************************)
(* C9.  Bytes 3, 2, 1 of pack_time(h,m,s) decode to (h,m,s); those of      *)
(* pack_date(y,mo,d) decode to (y mod 100, mo, d); the low byte of both    *)
(* words is 0; pack_date gives one word for years equal modulo 100.        *)
(***************************************************************************)
C9_PackRoundTrip ==
    /\ (/\ cin.op = "pack_time" /\ cout # << >>
        /\ cin.hour \in 0..23 /\ cin.min \in 0..59 /\ cin.sec \in 0..59) =>
          /\ BcdToInt(RegByte(cout[1], 24)) = cin.hour
          /\ BcdToInt(RegByte(cout[1], 16)) = cin.min
          /\ BcdToInt(RegByte(cout[1], 8)) = cin.sec
          /\ cout[1][4] = 0
    /\ (/\ cin.op = "pack_date" /\ cout # << >>
        /\ cin.month \in 1..12 /\ cin.day \in 1..31) =>
          /\ BcdToInt(RegByte(cout[1], 24)) = cin.year % 100
          /\ BcdToInt(RegByte(cout[1], 16)) = cin.month
          /\ BcdToInt(RegByte(cout[1], 8)) = cin.day
          /\ cout[1][4] = 0
          /\ cout[1] = pack_date(2000 + (cin.year % 100), cin.month, cin.day)

\* 2105-12-31 packs to the word of 2005-12-31
C9_Witness ==
    /\ cin.op = "pack_date"
    /\ cin.year = 2105 /\ cin.month = 12 /\ cin.day = 31
    /\ cout = << << 5, 18, 49, 0 >> >>

(***************************************************************************)
(* C10.  After setpeakhours stored a start that is not below the end,      *)
(* checkPeakHours reports OffPeak at every time of day: the window does    *)
(* not wrap around midnight.                                               *)
(***************************************************************************)
C10_NoWrapAroundMidnight ==
    [][ (CheckReturns /\ lastSet # << >> /\ peak_start_minutes >= peak_end_minutes) =>
          /\ multiTariff' = 0
          /\ uart' = << << "lit", OFFPEAK_LINE >> >> ]_vars

\* OffPeak at 23:xx for the window 22:00-06:00
C10_Witness ==
    /\ CheckDone
    /\ lastSet = << 22, 0, 6, 0 >>
    /\ DigitsValue(RTCTIME[1]) = 23
    /\ multiTariff = 0

(***************************************************************************)
(* C11.  __initRTC runs its steps in this order: ON cleared, system        *)
(* unlocked and write-enable set, control bits cleared, TIME then DATE     *)
(* written, clock re-enabled, wait for the clock status bit,               *)
(* write-enable cleared.  TIME and DATE are written only with the clock    *)
(* disabled and write-enable set; at return the clock is enabled and       *)
(* write-enable is cleared.                                                *)
(***************************************************************************)
OnBit == BitAnd(RTCCON, RTCCON_ON) # 0

WrenBit == BitAnd(RTCCON, RTCCON_RTCWREN) # 0

ClkOnBit == BitAnd(RTCCON, RTCCON_RTCCLKON) # 0

\* the positions of __initRTC in program order
InitOrder ==
    << "init_unlock", "init_wren", "init_lock", "init_clr", "init_time",
       "init_date", "init_on", "init_wait", "init_unlock2", "init_wrdis",
       "init_lock2", "init_on2" >>

InitPos(p) == CHOOSE i \in 1..Len(InitOrder) : InitOrder[i] = p

InitPcs == { InitOrder[i] : i \in 1..Len(InitOrder) }

C11_InitSequence ==
    [][ \* what has been done when each position is reached
        /\ pc \in { "init_unlock", "init_wren" } => ~OnBit
        /\ pc = "init_wren" => syskey = "unlocked"
        /\ pc \in { "init_lock", "init_clr", "init_time", "init_date" } =>
              (~OnBit /\ WrenBit)
        /\ pc \in { "init_date", "init_on" } => RTCTIME = rtc_time
        /\ pc = "init_on" => (RTCDATE = rtc_date /\ ~OnBit /\ WrenBit)
        /\ pc \in { "init_wait", "init_unlock2", "init_wrdis" } => (OnBit /\ WrenBit)
        /\ pc \in { "init_unlock2", "init_wrdis" } => ClkOnBit
        /\ pc \in { "init_lock2", "init_on2" } => (OnBit /\ ~WrenBit)
        \* the positions follow each other in program order
        /\ (pc \in InitPcs /\ pc' # pc) =>
              IF pc = "init_on2" THEN pc' = "idle"
              ELSE pc' = InitOrder[InitPos(pc) + 1]
        /\ (pc' \in InitPcs /\ pc \notin InitPcs) => (pc = "idle" /\ pc' = "init_unlock")
        \* the driver, whose steps move pc, writes TIME and DATE only at their
        \* two statements
        /\ (pc \in InitPcs /\ pc' # pc /\ RTCTIME' # RTCTIME) =>
              (pc = "init_time" /\ ~OnBit /\ WrenBit /\ RTCTIME' = rtc_time)
        /\ (pc \in InitPcs /\ pc' # pc /\ RTCDATE' # RTCDATE) =>
              (pc = "init_date" /\ ~OnBit /\ WrenBit /\ RTCDATE' = rtc_date)
        \* at return
        /\ (pc = "init_on2" /\ pc' = "idle") =>
              (BitAnd(RTCCON', RTCCON_ON) # 0 /\ BitAnd(RTCCON', RTCCON_RTCWREN) = 0)
      ]_vars

\* RTC_Initialize(2099,12,31,23,59,59) has returned: registers programmed,
\* clock enabled, write-enable cleared
C11_Witness ==
    /\ pc = "idle"
    /\ lastInit = << 2099, 12, 31, 23, 59, 59 >>
    /\ RTCTIME = << 35, 89, 89, 0 >>
    /\ RTCDATE = << 153, 18, 49, 0 >>
    /\ OnBit /\ ~WrenBit

(***************************************************************************)
(* C12.  RTC_Initialize returns if and only if the clock status bit        *)
(* (RTCCON & 0x40) gets set after the clock is re-enabled: with the        *)
(* hardware setting the bit, the call returns; while the bit is clear the  *)
(* call stays in the wait loop, write-enable stays set and the call does   *)
(* not return.                                                             *)
(***************************************************************************)
C12_ReturnsIffSynchronized ==
    /\ (pc \in InitPcs) ~> (pc = "idle")
    /\ [][ /\ (pc = "init_wait" /\ ~ClkOnBit) => pc' = "init_wait"
           /\ pc = "init_wait" => (WrenBit /\ BitAnd(RTCCON', RTCCON_RTCWREN) # 0)
           /\ (pc \in InitPcs /\ InitPos(pc) <= InitPos("init_wait")) => pc' # "idle"
         ]_vars

\* the call is in the wait loop and the status bit is not set yet
C12_Witness ==
    /\ pc = "init_wait"
    /\ OnBit
    /\ ~ClkOnBit
    /\ WrenBit

(***************************************************************************)
(* C13.  Amended: the sampling loops have no iteration cap.  A loop exits  *)
(* at the end of the first pass during which no tick changes a register    *)
(* between its paired reads, so both functions return once a pass is       *)
(* tick-free, and a tick costs at most one extra pass.  Every pass during  *)
(* which a tick changes a register between the paired reads is repeated,   *)
(* however many passes came before; a tick that lands inside a pass        *)
(* without doing so (between the first DATE read and the first TIME read,  *)
(* on a second that does not roll the day) does not keep the loop going.   *)
(***************************************************************************)
\* ticks that landed between the first and the last read of the pass
TicksInsidePass ==
    { l \in loop.landed : l[1] \in { "upd_time", "upd_datechk", "upd_timechk",
                                     "chk_timechk" } }

\* ticks that changed a register between its first read and its second read
TicksBetweenPairedReads ==
    { l \in loop.landed :
        \/ l[1] \in { "upd_datechk", "upd_timechk", "chk_timechk" }
        \/ (l[1] = "upd_time" /\ l[2]) }

\* the loop condition is evaluated in this step
LoopTested == pc \in { "upd_test", "chk_test" } /\ pc' # pc

LoopExits == pc' \in { "upd_fmt", "chk_classify" }

LoopRepeats ==
    /\ pc' = (IF pc = "upd_test" THEN "upd_date" ELSE "chk_time")
    /\ loop'.passes = loop.passes + 1

C13_NoCapExitOnQuietPass ==
    /\ (pc \in UpdPcs \cup ChkPcs) ~> (pc = "idle")
    /\ [][ /\ LoopTested =>
                IF TicksBetweenPairedReads = {} THEN LoopExits ELSE LoopRepeats
           /\ pc \in UpdPcs \cup ChkPcs =>
                (loop.passes >= 1 /\ loop.passes <= loop.ticks + 1) ]_vars

\* C13 as stated: a pass inside which a tick landed does not leave the loop
C13_Original ==
    [][ /\ LoopTested =>
              /\ TicksInsidePass = {} => LoopExits
              /\ TicksInsidePass # {} => LoopRepeats
        /\ pc \in UpdPcs \cup ChkPcs =>
              (loop.passes >= 1 /\ loop.passes <= loop.ticks + 1) ]_vars

\* RTC_UpdateDateTime leaves its loop after a third pass: two earlier passes
\* each had a register changed between the paired reads
C13_Witness ==
    /\ pc = "upd_fmt"
    /\ loop.passes >= 3
    /\ TicksBetweenPairedReads = {}

(***************************************************************************)
(* C14.  Every completed checkPeakHours emits exactly one status line and  *)
(* writes multiTariff once, and the two agree: the PEAK-HOUR line with 1,  *)
(* the OFFPEAK-HOUR line with 0; also when multiTariff already had that    *)
(* value.                                                                  *)
(***************************************************************************)
C14_OneLineOneWrite ==
    [][ /\ CheckReturns =>
              /\ uart = << >>
              /\ Len(uart') = 1
              /\ uart'[1] \in { << "lit", PEAK_LINE >>, << "lit", OFFPEAK_LINE >> }
              /\ multiTariff' \in { 0, 1 }
              /\ (uart'[1] = << "lit", PEAK_LINE >>) <=> (multiTariff' = 1)
              /\ (uart'[1] = << "lit", OFFPEAK_LINE >>) <=> (multiTariff' = 0)
        \* nothing is sent or written before the last step of the call
        /\ (pc \in ChkPcs /\ ~CheckReturns) =>
              (uart = << >> /\ uart' = uart /\ multiTariff' = multiTariff) ]_vars

\* window 08:00-17:00, checked at 07:59: the off-peak line is sent and multiTariff is 0
C14_Witness ==
    /\ CheckDone
    /\ lastSet = << 8, 0, 17, 0 >>
    /\ MinuteOfDay(RTCTIME) = 479
    /\ multiTariff = 0
    /\ uart = << << "lit", OFFPEAK_LINE >> >>

(***************************************************************************)
(* C15.  The result of checkPeakHours depends only on the hour and minute  *)
(* bytes of TIME and on the stored window: with the seconds byte or the    *)
(* reserved byte of the sampled word replaced by any other value the       *)
(* tariff and the line are the same, and DATE is never read.               *)
(***************************************************************************)
\* values tried in place of the seconds byte and of the reserved byte
OtherBytes == { 0, 89, 255 }

\* the sampled TIME word with other seconds and reserved bytes
TimeVariants(time_r) ==
    { << time_r[1], time_r[2], s, r >> : s \in OtherBytes, r \in OtherBytes }

C15_OnlyHourMinuteAndWindow ==
    [][ /\ CheckReturns =>
              \A alt \in TimeVariants(time_reg) :
                 LET peak == InPeak(CurrentMinutes(alt), peak_start_minutes,
                                    peak_end_minutes)
                 IN  /\ multiTariff' = (IF peak THEN 1 ELSE 0)
                     /\ uart' = << << "lit", IF peak THEN PEAK_LINE ELSE OFFPEAK_LINE >> >>
        /\ pc \in ChkPcs => (date_reg = NoWord /\ date_check = NoWord)
        /\ pc \in ChkPcs => (date_reg' = date_reg /\ date_check' = date_check) ]_vars

\* a TIME word with seconds 40 and the reserved byte set was classified
C15_Witness ==
    /\ CheckDone
    /\ RTCTIME = << 9, 21, 64, 255 >>
    /\ lastSet = << 8, 0, 17, 0 >>
    /\ multiTariff = 1
    /\ uart = << << "lit", PEAK_LINE >> >>

(***************************************************************************)
(* C16.  Amended: packing performs no range check and signals no error.    *)
(* For a field value in 100..255 pack_time and pack_date still return a    *)
(* word; decoding the field's byte gives the value less 160 for            *)
(* 160..255, and gives the value itself for 100..159, whose byte has a     *)
(* high nibble of 10..15.                                                  *)
(***************************************************************************)
\* the three one-byte fields given to the packing function, first byte first
PackedFields ==
    IF cin.op = "pack_time" THEN << cin.hour, cin.min, cin.sec >>
    ELSE << cin.year % 100, cin.month, cin.day >>

Packed == cin.op \in { "pack_time", "pack_date" } /\ cout # << >>

C16_OutOfRangeFields ==
    Packed =>
        /\ cout[1] \in [ 1..4 -> 0..255 ]
        /\ \A i \in 1..3 :
              LET f == PackedFields[i]
                  byte == RegByte(cout[1], 32 - 8 * i)
              IN  /\ f \in 100..159 =>
                        (BcdToInt(byte) = f /\ byte \div 16 = f \div 10)
                  /\ f \in 160..255 => BcdToInt(byte) = f - 160

\* C16 as stated: a field above 99 never decodes to the value passed in
C16_Original ==
    Packed =>
        \A i \in 1..3 :
           PackedFields[i] > 99 =>
              BcdToInt(RegByte(cout[1], 32 - 8 * i)) # PackedFields[i]

\* pack_time(200, 30, 5): the hour byte is 0x40 and decodes to 40
C16_Witness ==
    /\ cin.op = "pack_time"
    /\ cin.hour = 200
    /\ cout = << << 64, 48, 5, 0 >> >>

(***************************************************************************)
(* C17.  The peak window changes only in setpeakhours: once set it stays   *)
(* as set through checkPeakHours, RTC_UpdateDateTime,                      *)
(* display_current_time, RTC_Initialize and ticks until the next           *)
(* setpeakhours; setpeakhours changes neither multiTariff, nor             *)
(* current_datetime, nor TIME or DATE.                                     *)
(***************************************************************************)
\* setpeakhours runs in this step with arguments other than the last ones
WindowSet == lastSet' # lastSet

C17_WindowFrame ==
    [][ /\ (peak_start_minutes' # peak_start_minutes
            \/ peak_end_minutes' # peak_end_minutes) =>
              (WindowSet /\ pc = "idle" /\ pc' = "idle")
        /\ ~WindowSet =>
              /\ peak_start_minutes' = peak_start_minutes
              /\ peak_end_minutes' = peak_end_minutes
        /\ lastSet # << >> =>
              /\ peak_start_minutes = lastSet[1] * 60 + lastSet[2]
              /\ peak_end_minutes = lastSet[3] * 60 + lastSet[4]
        /\ WindowSet =>
              /\ multiTariff' = multiTariff
              /\ current_datetime' = current_datetime
              /\ RTCTIME' = RTCTIME
              /\ RTCDATE' = RTCDATE
              /\ RTCCON' = RTCCON ]_vars

\* the window 08:00-17:00 still stored after a check, an update, a tick and
\* display_current_time
C17_Witness ==
    /\ pc = "idle"
    /\ lastSet = << 8, 0, 17, 0 >>
    /\ peak_start_minutes = 480
    /\ peak_end_minutes = 1020
    /\ multiTariff = 1
    /\ current_datetime[1] = 50
    /\ ticks > 0
    /\ Len(uart) = 3

(***************************************************************************)
(* C18.  The two readers do not touch the clock: RTC_UpdateDateTime and    *)
(* checkPeakHours never write TIME, DATE or the control register;          *)
(* RTC_UpdateDateTime changes only current_datetime, not multiTariff;      *)
(* checkPeakHours changes only multiTariff and the status output, not      *)
(* current_datetime.                                                       *)
(***************************************************************************)
\* a statement of the function whose positions are Pcs, its entry included
StepOf(Pcs) == (pc \in Pcs \/ pc' \in Pcs) /\ pc' # pc

ClockUntouched ==
    /\ RTCTIME' = RTCTIME
    /\ RTCDATE' = RTCDATE
    /\ RTCCON' = RTCCON
    /\ syskey' = syskey

WindowUntouched ==
    /\ peak_start_minutes' = peak_start_minutes
    /\ peak_end_minutes' = peak_end_minutes

C18_ReadersFrame ==
    [][ /\ StepOf(UpdPcs) =>
              /\ ClockUntouched
              /\ WindowUntouched
              /\ multiTariff' = multiTariff
              /\ uart' = << >>
              /\ current_datetime' # current_datetime => UpdateReturns
        /\ StepOf(ChkPcs) =>
              /\ ClockUntouched
              /\ WindowUntouched
              /\ current_datetime' = current_datetime
              /\ (multiTariff' # multiTariff \/ uart' # << >>) => CheckReturns ]_vars

\* after RTC_Initialize, RTC_UpdateDateTime and checkPeakHours the registers
\* hold what RTC_Initialize wrote
C18_Witness ==
    /\ CheckDone
    /\ lastInit = << 2025, 8, 8, 14, 30, 5 >>
    /\ RTCTIME = << 20, 48, 5, 0 >>
    /\ RTCDATE = << 37, 8, 8, 0 >>
    /\ current_datetime = Str_2025_08_08_14_30_05

(***************************************************************************)
(* C19.  For all 8-bit arguments setpeakhours stores hour*60+min exactly,  *)
(* with no wrap-around in the 16-bit variables; for every TIME content     *)
(* the minute of the day computed by checkPeakHours equals                 *)
(* decoded_hour*60+decoded_minute, without 8-bit or 16-bit overflow.       *)
(***************************************************************************)
C19_NoOverflow ==
    /\ (cin.op = "PeakMinutes" /\ cout # << >>) =>
          /\ cout[1] = cin.hour * 60 + cin.min
          /\ cout[1] < 65536
    /\ (cin.op = "CurrentMinutes" /\ cout # << >>) =>
          /\ cout[1] = DigitsValue(cin.hour_bcd) * 60 + DigitsValue(cin.min_bcd)
          /\ DigitsValue(cin.hour_bcd) < 256
          /\ DigitsValue(cin.min_bcd) < 256
          /\ cout[1] < 65536

\* the largest arguments: 255 * 60 + 255 = 15555
C19_Witness ==
    /\ cin.op = "PeakMinutes"
    /\ cin.hour = 255 /\ cin.min = 255
    /\ cout = << 15555 >>

====
